---- MODULE Spec2Model ----
(***************************************************************************)
(* Model of the format router of convctl (src/convctl/cli.py): the         *)
(* CONVERTERS table, find_chain, dispatch, convert_file, the handlers the  *)
(* table binds and the file system they act on.                            *)
(*                                                                         *)
(* A path is a sequence of one-character strings (a file name in the       *)
(* working directory), so that suffix extraction, lower-casing, str.replace*)
(* and str.format are computed as Python computes them.                    *)
(***************************************************************************)
EXTENDS Integers, Sequences, FiniteSets, TLC

(* Largest page count of a document on disk. *)
MaxPages == 2

(* The largest rotation, in degrees either way, asked of rotate_pdf. *)
MaxDeg == 450

(* The operations started in one session of the menu. *)
MaxOperations == 2

----------------------------------------------------------------------------
(* Format identifiers, as character sequences. *)
pdf  == <<"p", "d", "f">>
docx == <<"d", "o", "c", "x">>
doc  == <<"d", "o", "c">>
txt  == <<"t", "x", "t">>
md   == <<"m", "d">>
png  == <<"p", "n", "g">>
jpg  == <<"j", "p", "g">>
jpeg == <<"j", "p", "e", "g">>
bmp  == <<"b", "m", "p">>
webp == <<"w", "e", "b", "p">>
mp4  == <<"m", "p", "4">>
mp3  == <<"m", "p", "3">>
wav  == <<"w", "a", "v">>
heic == <<"h", "e", "i", "c">>

(* The replacement field "{page:03d}" of the rasterizer's output pattern,  *)
(* and the literal "{page}" pdf_to_images looks for; each is one element.  *)
PageField == "{page:03d}"
PageLiteral == "{page}"

----------------------------------------------------------------------------
(* String operations of Python, on character sequences. *)

(* str.lower on one character (the upper-case letters the inputs use). *)
LowerChar(c) ==
  CASE c = "P" -> "p" [] c = "D" -> "d" [] c = "F" -> "f" [] c = "N" -> "n"
    [] c = "G" -> "g" [] c = "J" -> "j" [] c = "E" -> "e" [] c = "O" -> "o"
    [] c = "C" -> "c" [] c = "X" -> "x" [] OTHER -> c

(* str.lower *)
Lower(s) == [k \in 1..Len(s) |-> LowerChar(s[k])]

(* str.lstrip(".") *)
RECURSIVE LStripDot(_)
LStripDot(s) ==
  IF s # <<>> /\ s[1] = "." THEN LStripDot(Tail(s)) ELSE s

(* s.startswith(t) *)
StartsWith(s, t) == Len(s) >= Len(t) /\ SubSeq(s, 1, Len(t)) = t

(* str.replace(old, new): every non-overlapping occurrence, left to right. *)
RECURSIVE Replace(_, _, _)
Replace(s, old, new) ==
  IF Len(s) < Len(old) THEN s
  ELSE IF StartsWith(s, old)
       THEN new \o Replace(SubSeq(s, Len(old) + 1, Len(s)), old, new)
       ELSE <<s[1]>> \o Replace(Tail(s), old, new)

(* t in s (substring test). *)
Contains(s, t) == \E k \in 1..(Len(s) - Len(t) + 1) : SubSeq(s, k, k + Len(t) - 1) = t

(* Index of the last "." of a name, 0 when there is none (str.rfind + 1). *)
LastDot(p) ==
  LET ds == {k \in 1..Len(p) : p[k] = "."}
  IN IF ds = {} THEN 0 ELSE CHOOSE k \in ds : \A j \in ds : j <= k

(* pathlib Path.suffix: the last dot and what follows it; empty when the   *)
(* name has no dot, starts with its only dot, or ends with a dot.          *)
PathSuffix(p) ==
  LET i == LastDot(p)
  IN IF 1 < i /\ i < Len(p) THEN SubSeq(p, i, Len(p)) ELSE <<>>

(* pathlib Path.stem *)
PathStem(p) == SubSeq(p, 1, Len(p) - Len(PathSuffix(p)))

(* pathlib Path.with_suffix(suffix), for a non-empty name. *)
WithSuffix(p, suffix) == PathStem(p) \o suffix

(* Path(p).suffix[1:].lower() *)
ExtOf(p) == IF PathSuffix(p) = <<>> THEN <<>> ELSE Lower(Tail(PathSuffix(p)))

Digits == <<"0", "1", "2", "3", "4", "5", "6", "7", "8", "9">>

(* format(i, "03d") for 0 <= i <= 999 *)
Pad3(i) ==
  << Digits[((i \div 100) % 10) + 1], Digits[((i \div 10) % 10) + 1], Digits[(i % 10) + 1] >>

(* out_pattern.format(page=i): each replacement field becomes the padded   *)
(* page number.                                                            *)
RECURSIVE FormatPage(_, _)
FormatPage(s, i) ==
  IF s = <<>> THEN <<>>
  ELSE (IF s[1] = PageField THEN Pad3(i) ELSE <<s[1]>>) \o FormatPage(Tail(s), i)

----------------------------------------------------------------------------
(* The file system: a function from the paths that exist to their content. *)
(* A content records who wrote the file and how many pages it holds.       *)

Exists(disk, p) == p \in DOMAIN disk

WriteFile(disk, p, c) ==
  [q \in (DOMAIN disk) \cup {p} |-> IF q = p THEN c ELSE disk[q]]

RemoveFile(disk, p) == [q \in (DOMAIN disk) \ {p} |-> disk[q]]

PagesOf(disk, p) == IF Exists(disk, p) THEN disk[p].pages ELSE 0

(* os.path.exists + os.remove, OSError swallowed. *)
safe_remove(disk, p) == IF Exists(disk, p) THEN RemoveFile(disk, p) ELSE disk

(* What one handler invocation did: whether it returned normally, the disk *)
(* it left, the paths it wrote and removed, and the external tools it ran  *)
(* (each with whether the run succeeded).                                  *)
Outcome(ok, disk, writes, removes, tools) ==
  [ok |-> ok, disk |-> disk, writes |-> writes, removes |-> removes, tools |-> tools]

Run(tool, ok) == [tool |-> tool, ok |-> ok]

(* The behaviour of the external collaborator in one handler invocation:   *)
(*   "ok"        present and succeeds (when its input can be read)         *)
(*   "absent"    the tool or library is not installed                      *)
(*   "error"     present, the run fails                                    *)
(*   "retry_ok"  pandoc: the xelatex run fails, the plain run succeeds     *)
(*   "nofile"    LibreOffice: exit status 0, no file generated             *)
ToolBehaviours == {"ok", "absent", "error", "retry_ok", "nofile"}

(* A library call (import, then use) that writes `out` on success. *)
LibraryWrites(lib, inp, out, oc, disk) ==
  IF oc = "absent" THEN Outcome(FALSE, disk, {}, {}, <<>>)
  ELSE IF oc = "ok" /\ Exists(disk, inp)
       THEN Outcome(TRUE, WriteFile(disk, out, [by |-> lib, pages |-> PagesOf(disk, inp)]),
                    {out}, {}, <<Run(lib, TRUE)>>)
       ELSE Outcome(FALSE, disk, {}, {}, <<Run(lib, FALSE)>>)

convert_docx_to_pdf_windows(inp, out, oc, disk) ==
  LibraryWrites("docx2pdf", inp, out, oc, disk)

convert_docx_to_pdf_linux(inp, out, oc, disk) ==
  IF oc = "absent" THEN Outcome(FALSE, disk, {}, {}, <<>>)
  ELSE IF oc = "error" \/ (oc # "nofile" /\ ~Exists(disk, inp))
       THEN Outcome(FALSE, disk, {}, {}, <<Run("libreoffice", FALSE)>>)
       ELSE
         LET generated == PathStem(inp) \o <<".">> \o pdf
             made == oc # "nofile"
             d1 == IF made
                   THEN WriteFile(disk, generated,
                                  [by |-> "libreoffice", pages |-> PagesOf(disk, inp)])
                   ELSE disk
             moved == generated # out /\ Exists(d1, generated)
             d2 == IF moved THEN WriteFile(RemoveFile(d1, generated), out, d1[generated])
                   ELSE d1
         IN Outcome(TRUE, d2,
                    (IF made THEN {generated} ELSE {}) \cup (IF moved THEN {out} ELSE {}),
                    IF moved THEN {generated} ELSE {},
                    <<Run("libreoffice", TRUE)>>)

convert_docx_to_pdf(inp, out, oc, plat, disk) ==
  IF plat = "windows" THEN convert_docx_to_pdf_windows(inp, out, oc, disk)
  ELSE convert_docx_to_pdf_linux(inp, out, oc, disk)

convert_doc_to_pdf(inp, out, oc, plat, disk) ==
  IF plat = "windows" THEN LibraryWrites("win32com", inp, out, oc, disk)
  ELSE convert_docx_to_pdf_linux(inp, out, oc, disk)

convert_pdf_to_docx(inp, out, oc, disk) ==
  LibraryWrites("pdf2docx", inp, out, oc, disk)

(* reportlab: the canvas is saved to `out` also when reading `inp` fails. *)
txt_to_pdf(inp, out, oc, disk) ==
  IF oc = "absent" THEN Outcome(FALSE, disk, {}, {}, <<>>)
  ELSE IF oc = "ok" /\ Exists(disk, inp)
       THEN Outcome(TRUE, WriteFile(disk, out, [by |-> "reportlab", pages |-> PagesOf(disk, inp)]),
                    {out}, {}, <<Run("reportlab", TRUE)>>)
       ELSE Outcome(FALSE, WriteFile(disk, out, [by |-> "reportlab", pages |-> 1]),
                    {out}, {}, <<Run("reportlab", FALSE)>>)

(* An md_to_pdf that runs pandoc once more after the plain run failed too. *)
md_to_pdf_third_run(inp, out, oc, disk) ==
  LET written == WriteFile(disk, out, [by |-> "pandoc", pages |-> PagesOf(disk, inp)])
  IN IF oc = "absent" THEN Outcome(FALSE, disk, {}, {}, <<>>)
     ELSE IF oc = "ok" /\ Exists(disk, inp)
          THEN Outcome(TRUE, written, {out}, {}, <<Run("pandoc", TRUE)>>)
          ELSE IF oc = "retry_ok" /\ Exists(disk, inp)
               THEN Outcome(TRUE, written, {out}, {}, <<Run("pandoc", FALSE), Run("pandoc", TRUE)>>)
               ELSE Outcome(FALSE, disk, {}, {},
                            <<Run("pandoc", FALSE), Run("pandoc", FALSE), Run("pandoc", FALSE)>>)

(* pandoc with xelatex; on a non-zero exit status, pandoc again without. *)
md_to_pdf(inp, out, oc, disk) ==
  LET written == WriteFile(disk, out, [by |-> "pandoc", pages |-> PagesOf(disk, inp)])
  IN IF oc = "absent" THEN Outcome(FALSE, disk, {}, {}, <<>>)
     ELSE IF oc = "ok" /\ Exists(disk, inp)
          THEN Outcome(TRUE, written, {out}, {}, <<Run("pandoc", TRUE)>>)
          ELSE IF oc = "retry_ok" /\ Exists(disk, inp)
               THEN Outcome(TRUE, written, {out}, {}, <<Run("pandoc", FALSE), Run("pandoc", TRUE)>>)
               ELSE Outcome(FALSE, disk, {}, {}, <<Run("pandoc", FALSE), Run("pandoc", FALSE)>>)

image_to_pdf(inp, out, oc, disk) ==
  IF oc = "absent" THEN Outcome(FALSE, disk, {}, {}, <<>>)
  ELSE IF oc = "ok" /\ Exists(disk, inp)
       THEN Outcome(TRUE, WriteFile(disk, out, [by |-> "pillow", pages |-> 1]),
                    {out}, {}, <<Run("pillow", TRUE)>>)
       ELSE Outcome(FALSE, disk, {}, {}, <<Run("pillow", FALSE)>>)

image_convert(inp, out, oc, disk) ==
  IF oc = "absent" THEN Outcome(FALSE, disk, {}, {}, <<>>)
  ELSE IF oc = "ok" /\ Exists(disk, inp)
       THEN Outcome(TRUE, WriteFile(disk, out, [by |-> "pillow", pages |-> 1]),
                    {out}, {}, <<Run("pillow", TRUE)>>)
       ELSE Outcome(FALSE, disk, {}, {}, <<Run("pillow", FALSE)>>)

(* The path pdf_to_images saves page i to. *)
PageOutPath(out_pattern, i) ==
  LET sfx == PathSuffix(out_pattern)
      low == IF sfx = <<>> THEN <<>> ELSE Lower(Tail(sfx))
      fmt == IF low = <<>> THEN png ELSE low
      base == Replace(Replace(out_pattern, <<PageLiteral, ".">> \o fmt, <<>>),
                      <<".">> \o fmt, <<>>)
  IN IF Contains(out_pattern, <<PageLiteral>>)
     THEN base \o <<"_">> \o Pad3(i) \o <<".">> \o fmt
     ELSE FormatPage(out_pattern, i)

RECURSIVE SavePages(_, _, _, _)
SavePages(disk, out_pattern, i, n) ==
  IF i > n THEN disk
  ELSE SavePages(WriteFile(disk, PageOutPath(out_pattern, i), [by |-> "pdf2image", pages |-> 1]),
                 out_pattern, i + 1, n)

(* pdf2image rasterizes every page, then each page is saved in turn. *)
pdf_to_images(inp, out_pattern, oc, disk) ==
  IF oc = "absent" THEN Outcome(FALSE, disk, {}, {}, <<>>)
  ELSE IF oc = "ok" /\ Exists(disk, inp)
       THEN LET n == PagesOf(disk, inp)
            IN Outcome(TRUE, SavePages(disk, out_pattern, 1, n),
                       {PageOutPath(out_pattern, i) : i \in 1..n}, {},
                       <<Run("pdf2image", TRUE)>>)
       ELSE Outcome(FALSE, disk, {}, {}, <<Run("pdf2image", FALSE)>>)

(* ffmpeg; the input is checked before ffmpeg is run. *)
media_convert(inp, out, oc, disk) ==
  IF oc = "absent" \/ ~Exists(disk, inp) THEN Outcome(FALSE, disk, {}, {}, <<>>)
  ELSE IF oc = "ok"
       THEN Outcome(TRUE, WriteFile(disk, out, [by |-> "ffmpeg", pages |-> 1]),
                    {out}, {}, <<Run("ffmpeg", TRUE)>>)
       ELSE Outcome(FALSE, disk, {}, {}, <<Run("ffmpeg", FALSE)>>)

----------------------------------------------------------------------------
(* The PDF operations. Each imports pypdf, checks its input, reads it, and *)
(* only then opens its output for writing.                                 *)

(* argparse's value of an argument that was not given. *)
None == <<"None">>

(* The behaviour of pypdf (and reportlab) in one operation. *)
PdfBehaviours == {"ok", "absent", "error"}

(* A directory: it exists, and opening it as a PDF fails. *)
Directory == [by |-> "directory", pages |-> 0]
IsDirectory(disk, p) == Exists(disk, p) /\ disk[p] = Directory

RECURSIVE SumPages(_, _)
SumPages(disk, inputs) ==
  IF inputs = <<>> THEN 0 ELSE PagesOf(disk, Head(inputs)) + SumPages(disk, Tail(inputs))

(* An operation that reads inp and writes n pages to out: the import       *)
(* fails, or os.path.exists(inp) is false (for None it raises TypeError),  *)
(* or the reader fails, or open(out) fails for a missing out, or the file  *)
(* is written.                                                             *)
PdfWrites(inp, out, n, oc, disk) ==
  IF oc = "absent" \/ inp = None \/ ~Exists(disk, inp)
  THEN Outcome(FALSE, disk, {}, {}, <<>>)
  ELSE IF oc = "error" \/ out = None \/ IsDirectory(disk, inp)
       THEN Outcome(FALSE, disk, {}, {}, <<Run("pypdf", FALSE)>>)
       ELSE Outcome(TRUE, WriteFile(disk, out, [by |-> "pypdf", pages |-> n]),
                    {out}, {}, <<Run("pypdf", TRUE)>>)

(* merge_pdfs: at least two inputs, each of which must exist; the merger   *)
(* is closed on every way out.                                             *)
merge_pdfs(inputs, out, oc, disk) ==
  IF oc = "absent" \/ Len(inputs) < 2 \/ \E k \in 1..Len(inputs) : ~Exists(disk, inputs[k])
  THEN Outcome(FALSE, disk, {}, {}, <<>>)
  ELSE IF oc = "error" \/ out = None \/ \E k \in 1..Len(inputs) : IsDirectory(disk, inputs[k])
       THEN Outcome(FALSE, disk, {}, {}, <<Run("pypdf", FALSE)>>)
       ELSE Outcome(TRUE, WriteFile(disk, out, [by |-> "pypdf", pages |-> SumPages(disk, inputs)]),
                    {out}, {}, <<Run("pypdf", TRUE)>>)

(* os.path.join(outdir, f"page_{i+1:03d}.pdf") *)
SplitPagePath(outdir, i) ==
  outdir \o <<"/", "p", "a", "g", "e", "_">> \o Pad3(i) \o <<".">> \o pdf

RECURSIVE WritePages(_, _, _, _)
WritePages(disk, outdir, i, n) ==
  IF i > n THEN disk
  ELSE WritePages(WriteFile(disk, SplitPagePath(outdir, i), [by |-> "pypdf", pages |-> 1]),
                  outdir, i + 1, n)

(* split_pdf: one file per page in outdir, which ensure_dir creates (it    *)
(* raises when a file of that name is in the way).                         *)
split_pdf(inp, outdir, oc, disk) ==
  IF oc = "absent" \/ inp = None \/ ~Exists(disk, inp) \/ Exists(disk, outdir)
  THEN Outcome(FALSE, disk, {}, {}, <<>>)
  ELSE IF oc = "error" \/ IsDirectory(disk, inp)
       THEN Outcome(FALSE, disk, {}, {}, <<Run("pypdf", FALSE)>>)
       ELSE Outcome(TRUE, WritePages(disk, outdir, 1, PagesOf(disk, inp)),
                    {SplitPagePath(outdir, i) : i \in 1..PagesOf(disk, inp)}, {},
                    <<Run("pypdf", TRUE)>>)

compress_pdf(inp, out, oc, disk) == PdfWrites(inp, out, PagesOf(disk, inp), oc, disk)

(* A remainder that takes the sign of the dividend, as in C. *)
TruncMod(a, n) == IF a >= 0 THEN a % n ELSE -((-a) % n)

(* Python's a % n for n > 0: the remainder of the floor division. *)
FloorMod(a, n) == a % n

(* deg = ((deg % 360) // 90) * 90 *)
Quantised(deg) == (FloorMod(deg, 360) \div 90) * 90

(* if deg < 0: the branch that adds 360. *)
NegativeBranch(deg) == Quantised(deg) < 0

(* The angle handed to page.rotate for every page. *)
AppliedRotation(deg) == IF NegativeBranch(deg) THEN Quantised(deg) + 360 ELSE Quantised(deg)

rotate_pdf(inp, out, deg, oc, disk) == PdfWrites(inp, out, PagesOf(disk, inp), oc, disk)

(* watermark_pdf: pypdf and reportlab; the text is drawn on every page. *)
watermark_pdf(inp, out, text, oc, disk) == PdfWrites(inp, out, PagesOf(disk, inp), oc, disk)

----------------------------------------------------------------------------
(* The handler table. A handler is named by its function; the three        *)
(* lambdas are named by the key they are written under.                    *)
CONVERTERS ==
  ( <<pdf, docx>> :> "convert_pdf_to_docx" ) @@
  ( <<docx, pdf>> :> "convert_docx_to_pdf" ) @@
  ( <<doc, pdf>>  :> "convert_doc_to_pdf" ) @@
  ( <<txt, pdf>>  :> "txt_to_pdf" ) @@
  ( <<md, pdf>>   :> "md_to_pdf" ) @@
  ( <<png, pdf>>  :> "image_to_pdf" ) @@
  ( <<jpg, pdf>>  :> "image_to_pdf" ) @@
  ( <<jpeg, pdf>> :> "image_to_pdf" ) @@
  ( <<bmp, pdf>>  :> "image_to_pdf" ) @@
  ( <<webp, pdf>> :> "image_to_pdf" ) @@
  ( <<pdf, png>>  :> "lambda_pdf_png" ) @@
  ( <<pdf, jpg>>  :> "lambda_pdf_jpg" ) @@
  ( <<pdf, jpeg>> :> "lambda_pdf_jpeg" ) @@
  ( <<png, jpg>>  :> "image_convert" ) @@
  ( <<png, jpeg>> :> "image_convert" ) @@
  ( <<jpg, png>>  :> "image_convert" ) @@
  ( <<jpeg, png>> :> "image_convert" ) @@
  ( <<bmp, png>>  :> "image_convert" ) @@
  ( <<webp, png>> :> "image_convert" ) @@
  ( <<mp4, mp3>>  :> "media_convert" ) @@
  ( <<wav, mp3>>  :> "media_convert" ) @@
  ( <<mp4, wav>>  :> "media_convert" )

Registered(src, dst) == <<src, dst>> \in DOMAIN CONVERTERS

(* lambda i, o: pdf_to_images(i, o.replace(".ext", "_{page:03d}.ext")) *)
PagePattern(o, ext) ==
  Replace(o, <<".">> \o ext, <<"_", PageField, ".">> \o ext)

(* handler(inp, out) for the handler of that name. *)
CallHandler(handler, inp, out, oc, plat, disk) ==
  CASE handler = "convert_pdf_to_docx" -> convert_pdf_to_docx(inp, out, oc, disk)
    [] handler = "convert_docx_to_pdf" -> convert_docx_to_pdf(inp, out, oc, plat, disk)
    [] handler = "convert_doc_to_pdf"  -> convert_doc_to_pdf(inp, out, oc, plat, disk)
    [] handler = "txt_to_pdf"          -> txt_to_pdf(inp, out, oc, disk)
    [] handler = "md_to_pdf"           -> md_to_pdf(inp, out, oc, disk)
    [] handler = "image_to_pdf"        -> image_to_pdf(inp, out, oc, disk)
    [] handler = "image_convert"       -> image_convert(inp, out, oc, disk)
    [] handler = "media_convert"       -> media_convert(inp, out, oc, disk)
    [] handler = "lambda_pdf_png"      -> pdf_to_images(inp, PagePattern(out, png), oc, disk)
    [] handler = "lambda_pdf_jpg"      -> pdf_to_images(inp, PagePattern(out, jpg), oc, disk)
    [] handler = "lambda_pdf_jpeg"     -> pdf_to_images(inp, PagePattern(out, jpeg), oc, disk)

(* "jpg" if f == "jpeg" else f *)
Norm(f) == IF f = jpeg THEN jpg ELSE f

(* The intermediates listed in another order. *)
intermediates_png_first == <<png, pdf, jpg>>

(* The intermediates with jpg tried first. *)
intermediates_jpg_first == <<jpg, pdf, png>>

(* The intermediates find_chain tries, in order. *)
intermediates == <<pdf, png, jpg>>

(* find_chain: the chain through intermediates[k] or a later one; <<>> is  *)
(* None.                                                                   *)
RECURSIVE FindChainFrom(_, _, _)
FindChainFrom(src, dst, k) ==
  IF k > Len(intermediates) THEN <<>>
  ELSE LET mid == intermediates[k]
           src_mid == Registered(src, mid) \/ (src = jpeg /\ mid = jpg)
           mid_dst == Registered(mid, dst) \/ (mid = jpg /\ dst = jpeg)
       IN IF src_mid /\ mid_dst
          THEN << <<Norm(src), Norm(mid)>>, <<Norm(mid), Norm(dst)>> >>
          ELSE FindChainFrom(src, dst, k + 1)

find_chain(src, dst) == FindChainFrom(src, dst, 1)

(* One handler invocation as the router sees it. handler = "none" is       *)
(* dispatch's "No handler" error.                                          *)
Invocation(handler, key, inp, out, oc) ==
  [handler |-> handler, key |-> key, inp |-> inp, out |-> out, ok |-> oc.ok,
   tools |-> oc.tools, writes |-> oc.writes, removes |-> oc.removes]

(* The second half of dispatch: look the key up and call its handler once, *)
(* or raise "No handler".                                                  *)
InvokeKey(key, inp, out, oc, plat, disk) ==
  IF key \in DOMAIN CONVERTERS
  THEN LET r == CallHandler(CONVERTERS[key], inp, out, oc, plat, disk)
       IN [call |-> Invocation(CONVERTERS[key], key, inp, out, r), after |-> r]
  ELSE LET r == Outcome(FALSE, disk, {}, {}, <<>>)
       IN [call |-> Invocation("none", key, inp, out, r), after |-> r]

(* dispatch without its two "jpeg" -> "jpg" assignments. *)
dispatch_keeps_jpeg(src0, dst0, inp, out, oc, plat, disk) ==
  InvokeKey(<<LStripDot(Lower(src0)), LStripDot(Lower(dst0))>>, inp, out, oc, plat, disk)

(* dispatch: lower-case and dot-strip the two formats, turn jpeg into jpg, *)
(* then look the key up.                                                   *)
dispatch(src0, dst0, inp, out, oc, plat, disk) ==
  LET src == LStripDot(Lower(src0))
      dst == LStripDot(Lower(dst0))
  IN InvokeKey(<< IF src = jpeg THEN jpg ELSE src, IF dst = jpeg THEN jpg ELSE dst >>,
               inp, out, oc, plat, disk)

(* Path(inp).with_suffix(f".tmp_{i}.{to_fmt}") *)
TempPath(inp, i, to_fmt) ==
  WithSuffix(inp, <<".", "t", "m", "p", "_", Digits[i + 1], ".">> \o to_fmt)

(* for temp in temp_files: safe_remove(temp) *)
RECURSIVE RemoveAll(_, _)
RemoveAll(disk, paths) ==
  IF paths = <<>> THEN disk ELSE RemoveAll(safe_remove(disk, Head(paths)), Tail(paths))

(* The sweep after the loop ran to its end. *)
SweepAfterSuccess(disk, temp_files) == RemoveAll(disk, temp_files)

(* The sweep of the except branch, before the exception is raised again. *)
SweepAfterFailure(disk, temp_files) == RemoveAll(disk, temp_files)

(* The state of the loop after dispatch returned or raised in one step:   *)
(* current_input, temp_files, the invocations made, the disk and whether   *)
(* an exception was raised.                                                *)
AfterStep(acc, temp_files, current_output, d) ==
  [current_input |-> current_output,
   temp_files |-> temp_files,
   calls |-> Append(acc.calls, d.call),
   disk |-> d.after.disk,
   writes |-> acc.writes \cup d.after.writes,
   removes |-> acc.removes \cup d.after.removes,
   raised |-> ~d.after.ok]

(* One iteration of the for loop of convert_file (step i, 0-based): the    *)
(* last step writes to out, any other to a temporary path that is recorded *)
(* before dispatch is called.                                              *)
ChainStep(chain, i, inp, out, ocs, plat, acc) ==
  LET to_fmt == chain[i + 1][2]
      current_output == IF i = Len(chain) - 1 THEN out ELSE TempPath(inp, i, to_fmt)
  IN AfterStep(acc,
               IF i = Len(chain) - 1 THEN acc.temp_files
               ELSE Append(acc.temp_files, TempPath(inp, i, to_fmt)),
               current_output,
               dispatch(chain[i + 1][1], to_fmt, acc.current_input, current_output,
                        ocs[i + 1], plat, acc.disk))

(* The for loop of convert_file over the chain, from step i: an exception  *)
(* ends it.                                                                *)
RECURSIVE ChainLoop(_, _, _, _, _, _, _)
LoopOn(chain, i, inp, out, ocs, plat, acc) ==
  IF acc.raised THEN acc ELSE ChainLoop(chain, i + 1, inp, out, ocs, plat, acc)

ChainLoop(chain, i, inp, out, ocs, plat, acc) ==
  IF i >= Len(chain) THEN acc
  ELSE LoopOn(chain, i, inp, out, ocs, plat, ChainStep(chain, i, inp, out, ocs, plat, acc))

(* A convert_file that returns True from its except branch as well. *)
ReturnValue_always_true(raised) == TRUE

(* return True at the end of the try block, return False from its except. *)
ReturnValue(raised) == ~raised

(* The error convert_file prints. *)
NoError == [kind |-> "none", src |-> <<>>, dst |-> <<>>]
HandlerError(call) == [kind |-> IF call.handler = "none" THEN "no_handler" ELSE "handler",
                       src |-> call.key[1], dst |-> call.key[2]]
(* The message built from the normalised formats instead. *)
Unsupported_normalised(src, dst) ==
  [kind |-> "unsupported", src |-> Norm(src), dst |-> Norm(dst)]

Unsupported(src, dst) == [kind |-> "unsupported", src |-> src, dst |-> dst]

(* What convert_file was given and derived before routing. *)
CallArgs(inp, out, ocs, disk) ==
  [inp |-> inp, out |-> out, src |-> ExtOf(inp), dst |-> ExtOf(out),
   before |-> disk, ocs |-> ocs]

(* The direct branch, dispatch having returned or raised. *)
DirectResult(args, d) ==
  args @@ [route |-> "direct", chain |-> <<>>, calls |-> <<d.call>>,
           temp_files |-> <<>>, writes |-> d.after.writes,
           removes |-> d.after.removes, disk |-> d.after.disk,
           result |-> ReturnValue(~d.after.ok),
           error |-> IF d.after.ok THEN NoError ELSE HandlerError(d.call)]

(* The sweep of the temporary files, on either way out of the loop. *)
Sweep(acc) ==
  IF acc.raised THEN SweepAfterFailure(acc.disk, acc.temp_files)
  ELSE SweepAfterSuccess(acc.disk, acc.temp_files)

(* The chain branch, the loop having ended in acc and the sweep in swept. *)
ChainResult(args, chain, acc, swept) ==
  args @@ [route |-> "chain", chain |-> chain, calls |-> acc.calls,
           temp_files |-> acc.temp_files, writes |-> acc.writes,
           removes |-> acc.removes \cup ((DOMAIN acc.disk) \ (DOMAIN swept)),
           disk |-> swept,
           result |-> ReturnValue(acc.raised),
           error |-> IF acc.raised THEN HandlerError(acc.calls[Len(acc.calls)])
                     ELSE NoError]

ChainBranch(args, chain, acc) == ChainResult(args, chain, acc, Sweep(acc))

(* The branch that raises "Unsupported conversion: src -> dst". *)
UnsupportedResult(args) ==
  args @@ [route |-> "unsupported", chain |-> <<>>, calls |-> <<>>,
           temp_files |-> <<>>, writes |-> {}, removes |-> {},
           disk |-> args.before, result |-> ReturnValue(TRUE),
           error |-> Unsupported(args.src, args.dst)]

(* The body of convert_file once src, dst and the chain are known. *)
RouteCall(args, src_norm, dst_norm, chain, plat) ==
  IF Registered(src_norm, dst_norm)
  THEN DirectResult(args, dispatch(args.src, args.dst, args.inp, args.out,
                                   args.ocs[1], plat, args.before))
  ELSE IF chain # <<>>
       THEN ChainBranch(args, chain,
                        ChainLoop(chain, 0, args.inp, args.out, args.ocs, plat,
                                  [current_input |-> args.inp, temp_files |-> <<>>,
                                   calls |-> <<>>, disk |-> args.before, writes |-> {},
                                   removes |-> {}, raised |-> FALSE]))
       ELSE UnsupportedResult(args)

(* convert_file(inp, out) on `disk`, the external tools behaving as ocs[1] *)
(* in the first handler invocation and ocs[2] in the second.               *)
convert_file(inp, out, ocs, plat, disk) ==
  RouteCall(CallArgs(inp, out, ocs, disk), Norm(ExtOf(inp)), Norm(ExtOf(out)),
            find_chain(Norm(ExtOf(inp)), Norm(ExtOf(out))), plat)

----------------------------------------------------------------------------
(* The state: the disk, the platform the process runs on, the record of    *)
(* the last convert_file call (what it was given, what it decided, what it *)
(* invoked and what it returned), and the paths written so far by a hop    *)
(* that was not the last of its chain and not written since as a result.   *)
(* converters is the module-level CONVERTERS dictionary of the running     *)
(* process, proc is the process itself (where its control is, the outcome  *)
(* of its last step, how it ended), and query is the last call made to     *)
(* find_chain on its own.                                                  *)
VARIABLES fs, platform, last, artifacts, converters, proc, query

vars == <<fs, platform, last, artifacts, converters, proc, query>>

Platforms == {"linux", "windows"}

NoCall ==
  [called |-> FALSE, inp |-> <<>>, out |-> <<>>, src |-> <<>>, dst |-> <<>>,
   before |-> <<>>, ocs |-> <<"ok", "ok">>, route |-> "none", chain |-> <<>>,
   calls |-> <<>>, temp_files |-> <<>>, writes |-> {}, removes |-> {},
   result |-> FALSE, error |-> NoError]

(* The parsed arguments of a process started without any. rotate holds the *)
(* integer given to --rotate, if one was given.                            *)
NoArgs ==
  [doctor |-> FALSE, merge |-> FALSE, split |-> FALSE, compress |-> FALSE,
   rotate |-> <<>>, watermark |-> None, input |-> None, output |-> None]

(* A process at its start, its control at `at`: nothing run, nothing asked, *)
(* no exit status yet.                                                     *)
ProcStart(at) ==
  [at |-> at, status |-> "running", how |-> "none", code |-> -1, ops |-> <<>>,
   reported |-> FALSE, asked |-> FALSE, resp |-> <<>>, args |-> NoArgs,
   rotation |-> -1, corrected |-> FALSE, started |-> 0]

NoQuery == [asked |-> FALSE, src |-> <<>>, dst |-> <<>>, chain |-> <<>>]

(* A router that records the chain it found under the pair it served. *)
RegistryAfterCall_memoises(reg) == reg @@ (<<pdf, pdf>> :> "chain")

(* CONVERTERS after a call of convert_file, find_chain or dispatch: none   *)
(* of them assigns to the dictionary or to one of its keys.                *)
RegistryAfterCall(reg) == reg

(* The tool behaviours a handler distinguishes. *)
BehavioursOf(handler, plat) ==
  IF handler = "md_to_pdf" THEN {"ok", "absent", "error", "retry_ok"}
  ELSE IF handler \in {"convert_docx_to_pdf", "convert_doc_to_pdf"} /\ plat # "windows"
       THEN {"ok", "absent", "error", "nofile"}
       ELSE {"ok", "absent", "error"}

(* ocs names a behaviour for each invocation convert_file makes, and "ok"  *)
(* for an invocation it does not make.                                     *)
OracleFits(r, ocs, plat) ==
  \A k \in 1..2 :
    IF k <= Len(r.calls) /\ r.calls[k].handler # "none"
    THEN ocs[k] \in BehavioursOf(r.calls[k].handler, plat)
    ELSE ocs[k] = "ok"

(* The paths a call's hops before the last left written. *)
IntermediateWrites(r) ==
  UNION { r.calls[k].writes \ r.calls[k].removes :
            k \in {j \in 1..Len(r.calls) : j < Len(r.chain)} }

(* The paths written by the invocation that was given the output path. *)
FinalWrites(r) ==
  UNION { r.calls[k].writes :
            k \in {j \in 1..Len(r.calls) : j >= Len(r.chain)} }

(* The state after a convert_file call that ended as r. *)
Returned(r, ocs) ==
  /\ OracleFits(r, ocs, platform)
  /\ fs' = r.disk
  /\ last' = [called |-> TRUE, inp |-> r.inp, out |-> r.out, src |-> r.src,
              dst |-> r.dst, before |-> r.before, ocs |-> r.ocs, route |-> r.route,
              chain |-> r.chain, calls |-> r.calls, temp_files |-> r.temp_files,
              writes |-> r.writes, removes |-> r.removes, result |-> r.result,
              error |-> r.error]
  /\ artifacts' = (artifacts \ FinalWrites(r)) \cup IntermediateWrites(r)
  /\ UNCHANGED platform

(* One convert_file(inp, out) call, from its first line to its return. *)
ConvertFile(inp, out, ocs) ==
  Returned(convert_file(inp, out, ocs, platform, fs), ocs)

(* The extension spellings of the paths given on the command line: every   *)
(* format of the table, an unregistered one, upper-case spellings, and no  *)
(* extension at all.                                                       *)
Spellings ==
  {pdf, docx, doc, txt, md, png, jpg, jpeg, bmp, webp, mp4, mp3, wav, heic,
   <<"P", "D", "F">>, <<"P", "N", "G">>, <<"J", "P", "G">>, <<"J", "P", "E", "G">>,
   <<"D", "O", "C", "X">>, <<>>}

Named(stem, ext) == IF ext = <<>> THEN stem ELSE stem \o <<".">> \o ext

CliInputs == {Named(<<"a">>, e) : e \in Spellings}
CliOutputs == {Named(stem, e) : stem \in {<<"a">>, <<"b">>}, e \in Spellings}

UserFile(n) == [by |-> "user", pages |-> n]

(* Files that may lie on the disk from earlier, at the path of the first   *)
(* intermediate of a chain from a.*                                        *)
StalePaths == {TempPath(<<"a">>, 0, pdf), TempPath(<<"a">>, 0, png)}

(* The disks a command-line call starts from: the inputs exist or not, and *)
(* at most one stale file lies beside them.                                *)
CliDisks ==
  { [p \in present \cup stale |-> UserFile(n)] :
      present \in {CliInputs, {}},
      stale \in {{}} \cup {{q} : q \in StalePaths},
      n \in 1..MaxPages }

Init ==
  /\ fs \in CliDisks
  /\ platform \in Platforms
  /\ last = NoCall
  /\ artifacts = {}
  /\ converters = CONVERTERS
  /\ proc = ProcStart("cli")
  /\ query = NoQuery

(* A cli_mode that returns normally whatever convert_file returned. *)
ExitCode_always_zero(result) == 0

(* The exit status of a process whose cli_mode got `result` from           *)
(* convert_file: a normal return ends the interpreter with 0, sys.exit(1)  *)
(* with 1.                                                                 *)
ExitCode(result) == IF result THEN 0 ELSE 1

(* The process after cli_mode ran convert_file(args.input, args.output). *)
ConvertedAndExited(args, result) ==
  [proc EXCEPT !.status = "ended", !.at = "ended",
               !.how = IF result THEN "return" ELSE "sys_exit",
               !.code = ExitCode(result), !.ops = <<"convert_file">>,
               !.reported = ~result, !.args = args]

(* cli_mode: convert_file(args.input, args.output), once per process. *)
CliConvert ==
  /\ ~last.called
  /\ \E inp \in CliInputs, out \in CliOutputs, ocs \in ToolBehaviours \X ToolBehaviours :
       /\ ConvertFile(inp, out, ocs)
       /\ proc' = ConvertedAndExited([NoArgs EXCEPT !.input = inp, !.output = out],
                                     last'.result)
  /\ converters' = RegistryAfterCall(converters)
  /\ UNCHANGED query

Next == CliConvert

Spec == Init /\ [][Next]_vars

(* find_chain(src, dst) called on its own, with any two format strings. *)
FindChain ==
  /\ ~query.asked /\ ~last.called
  /\ \E src \in Spellings, dst \in Spellings :
       query' = [asked |-> TRUE, src |-> src, dst |-> dst, chain |-> find_chain(src, dst)]
  /\ converters' = RegistryAfterCall(converters)
  /\ UNCHANGED <<fs, platform, last, artifacts, proc>>

----------------------------------------------------------------------------
(* The direct-argument mode in full: cli_mode with its flags.              *)

(* `if args.rotate:` is true for an integer other than 0. *)
RotateTruthy(a) == a.rotate # <<>> /\ a.rotate[1] # 0

(* `if args.watermark:` is true for a text other than "". *)
WatermarkTruthy(a) == a.watermark # None /\ a.watermark # <<>>

(* sys.argv of a process given these arguments, flags before paths. *)
Argv(a) ==
  << <<"convctl">> >>
  \o (IF a.doctor THEN << <<"--doctor">> >> ELSE <<>>)
  \o (IF a.merge THEN << <<"--merge">> >> ELSE <<>>)
  \o (IF a.split THEN << <<"--split">> >> ELSE <<>>)
  \o (IF a.compress THEN << <<"--compress">> >> ELSE <<>>)
  \o (IF a.rotate # <<>> THEN << <<"--rotate">>, <<"N">> >> ELSE <<>>)
  \o (IF a.watermark # None THEN << <<"--watermark">>, a.watermark >> ELSE <<>>)
  \o (IF a.input # None THEN <<a.input>> ELSE <<>>)
  \o (IF a.output # None THEN <<a.output>> ELSE <<>>)

(* inputs = sys.argv[2:-1] and output = sys.argv[-1] of the merge branch *)
MergeInputs(a) == SubSeq(Argv(a), 3, Len(Argv(a)) - 1)
MergeOutput(a) == Argv(a)[Len(Argv(a))]

(* The branch of cli_mode the arguments select, named by what it calls. *)
CliOperation(a) ==
  IF a.doctor THEN "doctor"
  ELSE IF a.merge THEN "merge_pdfs"
  ELSE IF a.split THEN "split_pdf"
  ELSE IF a.compress THEN "compress_pdf"
  ELSE IF RotateTruthy(a) THEN "rotate_pdf"
  ELSE IF WatermarkTruthy(a) THEN "watermark_pdf"
  ELSE IF a.input = None \/ a.output = None THEN "print_help"
  ELSE "convert_file"

(* What the selected branch, other than the conversion, does to the disk. *)
CliOutcome(a, oc, disk) ==
  CASE CliOperation(a) = "merge_pdfs" -> merge_pdfs(MergeInputs(a), MergeOutput(a), oc, disk)
    [] CliOperation(a) = "split_pdf" ->
         split_pdf(a.input, IF a.output = None THEN <<"p", "a", "g", "e", "s">> ELSE a.output,
                   oc, disk)
    [] CliOperation(a) = "compress_pdf" -> compress_pdf(a.input, a.output, oc, disk)
    [] CliOperation(a) = "rotate_pdf" -> rotate_pdf(a.input, a.output, a.rotate[1], oc, disk)
    [] CliOperation(a) = "watermark_pdf" ->
         watermark_pdf(a.input, a.output, a.watermark, oc, disk)
    [] OTHER -> Outcome(TRUE, disk, {}, {}, <<>>)

(* rotate_pdf got as far as computing the angle. *)
RotationReached(a, oc, disk) ==
  CliOperation(a) = "rotate_pdf" /\ oc # "absent" /\ Exists(disk, a.input)

(* The process after a branch that calls its operation bare: when the      *)
(* operation raises, nothing catches the exception and the interpreter     *)
(* ends with status 1.                                                     *)
OperationExited(a, ok, reached) ==
  [proc EXCEPT !.status = "ended", !.at = "ended",
               !.how = IF ok THEN "return" ELSE "uncaught",
               !.code = IF ok THEN 0 ELSE 1,
               !.ops = IF CliOperation(a) = "print_help" THEN <<>> ELSE <<CliOperation(a)>>,
               !.reported = FALSE, !.args = a,
               !.rotation = IF reached THEN AppliedRotation(a.rotate[1]) ELSE -1,
               !.corrected = IF reached THEN NegativeBranch(a.rotate[1]) ELSE FALSE]

(* One run of cli_mode with arguments from argset. *)
CliModeOn(argset) ==
  /\ proc.status = "running"
  /\ \E a \in argset :
       /\ Len(Argv(a)) > 1
       /\ IF CliOperation(a) = "convert_file"
          THEN /\ \E ocs \in ToolBehaviours \X ToolBehaviours : ConvertFile(a.input, a.output, ocs)
               /\ proc' = ConvertedAndExited(a, last'.result)
               /\ converters' = RegistryAfterCall(converters)
          ELSE /\ \E oc \in PdfBehaviours :
                    /\ fs' = CliOutcome(a, oc, fs).disk
                    /\ proc' = OperationExited(a, CliOutcome(a, oc, fs).ok,
                                               RotationReached(a, oc, fs))
               /\ UNCHANGED <<platform, last, artifacts, converters>>
  /\ UNCHANGED query

(* The arguments given on the command line. *)
CliArgs ==
  [doctor : BOOLEAN, merge : BOOLEAN, split : BOOLEAN, compress : BOOLEAN,
   rotate : {<<>>, <<0>>, <<90>>, <<-90>>},
   watermark : {None, <<>>, <<"w">>},
   input : {None, Named(<<"a">>, pdf), Named(<<"a">>, docx)},
   output : {None, Named(<<"b">>, pdf), Named(<<"b">>, jpg)}]

InitCli ==
  /\ fs \in {[p \in present |-> UserFile(n)] :
               present \in {{Named(<<"a">>, pdf), Named(<<"a">>, docx)}, {}},
               n \in 1..MaxPages}
  /\ platform \in Platforms
  /\ last = NoCall
  /\ artifacts = {}
  /\ converters = CONVERTERS
  /\ proc = ProcStart("cli")
  /\ query = NoQuery

CliMode == CliModeOn(CliArgs)

NextCli == CliMode

SpecCli == InitCli /\ [][NextCli]_vars

(* convctl a.pdf b.pdf --rotate deg, for every angle up to MaxDeg. *)
RotateArgs ==
  {[NoArgs EXCEPT !.rotate = <<deg>>, !.input = Named(<<"a">>, pdf),
                  !.output = Named(<<"b">>, pdf)] : deg \in (-MaxDeg)..MaxDeg}

CliRotate == CliModeOn(RotateArgs)

NextRotate == CliRotate

SpecRotate == InitCli /\ [][NextRotate]_vars

----------------------------------------------------------------------------
(* The router used either way: through convert_file, or find_chain alone. *)
NextChain ==
  \/ FindChain
  \/ (~query.asked /\ CliConvert)

SpecChain == Init /\ [][NextChain]_vars

----------------------------------------------------------------------------
(* The interactive menus: conversions one after another in one process.    *)

(* The index of the last "/" of a path, 0 when there is none. *)
LastSep(p) ==
  LET ds == {k \in 1..Len(p) : p[k] = "/"}
  IN IF ds = {} THEN 0 ELSE CHOOSE k \in ds : \A j \in ds : j <= k

(* pathlib Path.name: the final component; "." has none. *)
PathName(p) == IF p = <<".">> THEN <<>> ELSE SubSeq(p, LastSep(p) + 1, Len(p))

(* The cases in which Path.with_suffix raises ValueError: a separator in   *)
(* the suffix, a suffix that is a lone dot or does not start with one, a   *)
(* path without a name.                                                    *)
with_suffix_raises(p, suffix) ==
  \/ Contains(suffix, <<"/">>)
  \/ (suffix # <<>> /\ ~StartsWith(suffix, <<".">>))
  \/ suffix = <<".">>
  \/ PathName(p) = <<>>

(* new_ext as get_output_path hands it to with_suffix. *)
Dotted(new_ext) == IF StartsWith(new_ext, <<".">>) THEN new_ext ELSE <<".">> \o new_ext

(* get_output_path: the input path with its suffix replaced by .new_ext *)
get_output_path(input_path, new_ext) == WithSuffix(input_path, Dotted(new_ext))

(* get_output_path does not catch what with_suffix raises. *)
get_output_path_raises(input_path, new_ext) ==
  with_suffix_raises(input_path, Dotted(new_ext))

(* A confirm_overwrite that takes the empty answer for consent. *)
confirm_overwrite_default_yes(path, resp, disk) ==
  IF Exists(disk, path) THEN Lower(resp) \in {<<"y">>, <<"y", "e", "s">>, <<>>} ELSE TRUE

(* confirm_overwrite: asks only when the path exists; the answer is        *)
(* lower-cased, and y and yes confirm.                                     *)
confirm_overwrite(path, resp, disk) ==
  IF Exists(disk, path) THEN Lower(resp) \in {<<"y">>, <<"y", "e", "s">>} ELSE TRUE

(* What the user may type at the overwrite prompt. *)
Answers == {<<"y">>, <<"y", "e", "s">>, <<"Y">>, <<"n">>, <<>>}

(* The prompt appears only for a path that exists. *)
AnswersAmong(answers, path) == IF Exists(fs, path) THEN answers ELSE {<<>>}

AnswersAt(path) == AnswersAmong(Answers, path)

(* The process after one pass of a menu loop: control at menu `at`, the    *)
(* operations the pass ran, whether it printed an error, and what was      *)
(* asked and answered at the overwrite prompt.                             *)
StepDone(at, ops, reported, asked, resp, step) ==
  [proc EXCEPT !.at = at, !.ops = ops, !.reported = reported, !.asked = asked,
               !.resp = resp, !.started = @ + step, !.rotation = -1,
               !.corrected = FALSE]

(* The process after an exception left main_menu: main catches only        *)
(* KeyboardInterrupt, so the interpreter prints the traceback and ends     *)
(* with status 1.                                                          *)
Crashed(step) ==
  [StepDone("ended", <<>>, FALSE, FALSE, <<>>, step)
     EXCEPT !.status = "ended", !.how = "uncaught", !.code = 1]

(* The files the menu user converts, and the output formats chosen. *)
MenuInputs == {Named(<<"a">>, docx), Named(<<"a">>, pdf)}
MenuFormats == {pdf, jpg, heic}

InitMenu ==
  /\ fs \in {[p \in MenuInputs |-> UserFile(n)] : n \in 1..MaxPages}
  /\ platform \in Platforms
  /\ last = NoCall
  /\ artifacts = {}
  /\ converters = CONVERTERS
  /\ proc = ProcStart("main")
  /\ query = NoQuery

(* The steps every conversion menu takes once the input file is entered:   *)
(* out = get_output_path(inp, new_ext); if confirm_overwrite(out):         *)
(* convert_file(inp, out). A ValueError from get_output_path is caught     *)
(* where the menu has an except ValueError around these steps (`catches`); *)
(* elsewhere it leaves the menu loop. Control goes back to `at`.           *)
MenuConversion(inp, new_ext, resp, ocs, catches, at, step) ==
  IF get_output_path_raises(inp, new_ext)
  THEN /\ proc' = IF catches THEN StepDone(at, <<>>, TRUE, FALSE, <<>>, step)
                  ELSE Crashed(step)
       /\ UNCHANGED <<fs, platform, last, artifacts, converters, query>>
  ELSE IF confirm_overwrite(get_output_path(inp, new_ext), resp, fs)
       THEN /\ ConvertFile(inp, get_output_path(inp, new_ext), ocs)
            /\ proc' = StepDone(at, <<"convert_file">>, ~last'.result,
                                Exists(fs, get_output_path(inp, new_ext)), resp, step)
            /\ converters' = RegistryAfterCall(converters)
            /\ UNCHANGED query
       ELSE /\ proc' = StepDone(at, <<>>, FALSE, TRUE, resp, step)
            /\ UNCHANGED <<fs, platform, last, artifacts, converters, query>>

(* menu_custom_conversion: a conversion chosen in the menu; the input must *)
(* exist, the output path is derived from it, and an existing output is    *)
(* overwritten only on consent.                                            *)
MenuConvert ==
  \E inp \in MenuInputs, ext \in MenuFormats, ocs \in ToolBehaviours \X ToolBehaviours :
    /\ Exists(fs, inp)
    /\ \E resp \in AnswersAmong({<<"y">>, <<"n">>}, get_output_path(inp, ext)) :
         MenuConversion(inp, ext, resp, ocs, FALSE, "main", 0)

NextMenu == MenuConvert

SpecMenu == InitMenu /\ [][NextMenu]_vars

----------------------------------------------------------------------------
(* The menu loop: main_menu, its submenus, and what ends it.               *)

Submenus == {"documents", "images", "pdf", "media"}

(* The paths the user enters at "Enter ... file path": get_input_file      *)
(* takes any path that exists, a directory as well.                        *)
LoopInputs == {Named(<<"a">>, pdf), <<".">>}

InitLoop ==
  /\ fs \in {(Named(<<"a">>, pdf) :> UserFile(n)) @@ (<<".">> :> Directory) : n \in 1..MaxPages}
  /\ platform \in Platforms
  /\ last = NoCall
  /\ artifacts = {}
  /\ converters = CONVERTERS
  /\ proc = ProcStart("main")
  /\ query = NoQuery

(* The process after choice 0 of the main menu: sys.exit(0). *)
ExitChosen ==
  [StepDone("ended", <<>>, FALSE, FALSE, <<>>, 0)
     EXCEPT !.status = "ended", !.how = "exit", !.code = 0]

(* The process after KeyboardInterrupt reached main: sys.exit(0). *)
Interrupted ==
  [StepDone("ended", <<>>, FALSE, FALSE, <<>>, 0)
     EXCEPT !.status = "ended", !.how = "interrupt", !.code = 0]

(* One pass of the main_menu loop, other than the custom conversion: exit, *)
(* a submenu, the doctor, the installer, or an invalid option.             *)
MainMenu ==
  /\ proc.status = "running" /\ proc.at = "main"
  /\ \E choice \in {"0", "1", "2", "3", "4", "6", "7", "x"} :
       proc' = CASE choice = "0" -> ExitChosen
                 [] choice = "1" -> StepDone("documents", <<>>, FALSE, FALSE, <<>>, 0)
                 [] choice = "2" -> StepDone("images", <<>>, FALSE, FALSE, <<>>, 0)
                 [] choice = "3" -> StepDone("pdf", <<>>, FALSE, FALSE, <<>>, 0)
                 [] choice = "4" -> StepDone("media", <<>>, FALSE, FALSE, <<>>, 0)
                 [] choice = "6" -> StepDone("main", <<"doctor">>, FALSE, FALSE, <<>>, 0)
                 [] choice = "7" ->
                      StepDone("main", <<"install_dependencies">>, FALSE, FALSE, <<>>, 0)
                 [] OTHER -> StepDone("main", <<>>, TRUE, FALSE, <<>>, 0)
  /\ UNCHANGED <<fs, platform, last, artifacts, converters, query>>

(* Choice 0 of a submenu: return to the main menu. *)
Back ==
  /\ proc.status = "running" /\ proc.at \in Submenus
  /\ proc' = StepDone("main", <<>>, FALSE, FALSE, <<>>, 0)
  /\ UNCHANGED <<fs, platform, last, artifacts, converters, query>>

(* Ctrl-C at any prompt. *)
Interrupt ==
  /\ proc.status = "running"
  /\ proc' = Interrupted
  /\ UNCHANGED <<fs, platform, last, artifacts, converters, query>>

(* A menu may start an operation. *)
MayStart(at) ==
  proc.status = "running" /\ proc.at = at /\ proc.started < MaxOperations

(* The tool behaviours tried in the loop. *)
LoopBehaviours == {"ok", "absent", "error"} \X {"ok", "absent", "error"}

(* A conversion from the menu `at` to one of the formats it offers. *)
SubmenuConversion(at, exts, catches) ==
  /\ MayStart(at)
  /\ \E inp \in LoopInputs, ext \in exts, ocs \in LoopBehaviours :
       /\ Exists(fs, inp)
       /\ \E resp \in AnswersAt(get_output_path(inp, ext)) :
            MenuConversion(inp, ext, resp, ocs, catches, at, 1)

(* menu_document_conversions, choices 1 to 5. *)
LoopDocuments == SubmenuConversion("documents", {pdf, docx}, FALSE)

(* menu_image_conversions: the steps are inside try ... except ValueError. *)
LoopImages == SubmenuConversion("images", {png, jpg, bmp, webp, pdf}, TRUE)

(* menu_media_conversions, choices 1 to 3. *)
LoopMedia == SubmenuConversion("media", {mp3, wav}, FALSE)

(* menu_custom_conversion: a format by number or by name, which may be any *)
(* text.                                                                   *)
LoopCustom == SubmenuConversion("main", {docx, heic, <<"p", "/", "d", "f">>}, FALSE)

(* The PDF menu after an operation returned or raised inside its try. *)
PdfOpDone(name, outcome, asked, resp) ==
  /\ fs' = outcome.disk
  /\ proc' = StepDone("pdf", <<name>>, ~outcome.ok, asked, resp, 1)
  /\ UNCHANGED <<platform, last, artifacts, converters, query>>

(* A pass of the PDF menu that ran no operation. *)
PdfNothingRun(reported, asked, resp) ==
  /\ proc' = StepDone("pdf", <<>>, reported, asked, resp, 1)
  /\ UNCHANGED <<fs, platform, last, artifacts, converters, query>>

(* An exception left the PDF menu. *)
PdfCrash ==
  /\ proc' = Crashed(1)
  /\ UNCHANGED <<fs, platform, last, artifacts, converters, query>>

(* str.endswith *)
EndsWith(x, t) == Len(x) >= Len(t) /\ SubSeq(x, Len(x) - Len(t) + 1, Len(x)) = t

(* if not out.endswith('.pdf'): out += '.pdf' *)
MergeOutName(name) == IF EndsWith(name, <<".">> \o pdf) THEN name ELSE name \o <<".">> \o pdf

(* Choice 1: merge; the file list takes existing paths only. *)
MenuMerge ==
  /\ MayStart("pdf")
  /\ \E files \in {<<Named(<<"a">>, pdf)>>, <<Named(<<"a">>, pdf), Named(<<"a">>, pdf)>>},
        name \in {<<"m">>, Named(<<"m">>, pdf)}, oc \in PdfBehaviours :
       IF Len(files) < 2 THEN PdfNothingRun(TRUE, FALSE, <<>>)
       ELSE \E resp \in AnswersAt(MergeOutName(name)) :
              IF confirm_overwrite(MergeOutName(name), resp, fs)
              THEN PdfOpDone("merge_pdfs", merge_pdfs(files, MergeOutName(name), oc, fs),
                             Exists(fs, MergeOutName(name)), resp)
              ELSE PdfNothingRun(FALSE, TRUE, resp)

(* Choice 2: split into the default directory. *)
MenuSplit ==
  /\ MayStart("pdf")
  /\ \E inp \in LoopInputs, oc \in PdfBehaviours :
       /\ Exists(fs, inp)
       /\ PdfOpDone("split_pdf", split_pdf(inp, <<"p", "a", "g", "e", "s">>, oc, fs),
                    FALSE, <<>>)

(* The steps shared by compress and watermark: the output path, the        *)
(* prompt, the operation inside try ... except Exception.                  *)
PdfOpTo(name, inp, new_ext, oc) ==
  IF get_output_path_raises(inp, new_ext) THEN PdfCrash
  ELSE \E resp \in AnswersAt(get_output_path(inp, new_ext)) :
         IF confirm_overwrite(get_output_path(inp, new_ext), resp, fs)
         THEN PdfOpDone(name, PdfWrites(inp, get_output_path(inp, new_ext),
                                        PagesOf(fs, inp), oc, fs),
                        Exists(fs, get_output_path(inp, new_ext)), resp)
         ELSE PdfNothingRun(FALSE, TRUE, resp)

(* Choice 3: compress. *)
MenuCompress ==
  /\ MayStart("pdf")
  /\ \E inp \in LoopInputs, oc \in PdfBehaviours :
       /\ Exists(fs, inp)
       /\ PdfOpTo("compress_pdf", inp,
                  <<"_", "c", "o", "m", "p", "r", "e", "s", "s", "e", "d", ".">> \o pdf, oc)

(* str(deg) for -999 <= deg <= 999 *)
IntStr(deg) ==
  LET n == IF deg < 0 THEN -deg ELSE deg
      ds == IF n >= 100 THEN Pad3(n) ELSE IF n >= 10 THEN Tail(Pad3(n)) ELSE Tail(Tail(Pad3(n)))
  IN (IF deg < 0 THEN <<"-">> ELSE <<>>) \o ds

(* f"_rotated{deg}.pdf" *)
RotatedExt(deg) == <<"_", "r", "o", "t", "a", "t", "e", "d">> \o IntStr(deg) \o <<".">> \o pdf

(* Choice 4: rotate. int(deg) and get_output_path are inside try ...       *)
(* except ValueError; typed is empty for a text that is not an integer.    *)
MenuRotate ==
  /\ MayStart("pdf")
  /\ \E inp \in LoopInputs, typed \in {<<>>, <<90>>, <<-90>>}, oc \in PdfBehaviours :
       /\ Exists(fs, inp)
       /\ IF typed = <<>> \/ get_output_path_raises(inp, RotatedExt(typed[1]))
          THEN PdfNothingRun(TRUE, FALSE, <<>>)
          ELSE \E resp \in AnswersAt(get_output_path(inp, RotatedExt(typed[1]))) :
                 IF confirm_overwrite(get_output_path(inp, RotatedExt(typed[1])), resp, fs)
                 THEN /\ fs' = rotate_pdf(inp, get_output_path(inp, RotatedExt(typed[1])),
                                          typed[1], oc, fs).disk
                      /\ proc' = [StepDone("pdf", <<"rotate_pdf">>,
                                           ~rotate_pdf(inp, get_output_path(inp, RotatedExt(typed[1])),
                                                       typed[1], oc, fs).ok,
                                           Exists(fs, get_output_path(inp, RotatedExt(typed[1]))),
                                           resp, 1)
                                    EXCEPT !.rotation = IF oc = "absent" THEN -1
                                                        ELSE AppliedRotation(typed[1]),
                                           !.corrected = oc # "absent" /\ NegativeBranch(typed[1])]
                      /\ UNCHANGED <<platform, last, artifacts, converters, query>>
                 ELSE PdfNothingRun(FALSE, TRUE, resp)

(* Choice 5: watermark; an empty text skips the pass. *)
MenuWatermark ==
  /\ MayStart("pdf")
  /\ \E inp \in LoopInputs, text \in {<<>>, <<"w">>}, oc \in PdfBehaviours :
       /\ Exists(fs, inp)
       /\ IF text = <<>> THEN PdfNothingRun(FALSE, FALSE, <<>>)
          ELSE PdfOpTo("watermark_pdf", inp,
                       <<"_", "w", "a", "t", "e", "r", "m", "a", "r", "k", "e", "d", ".">> \o pdf,
                       oc)

(* Choice 6: PDF to images; the output path is computed outside the try,   *)
(* and nothing is asked.                                                   *)
MenuPdfImages ==
  /\ MayStart("pdf")
  /\ \E inp \in LoopInputs, fmt \in {png, jpg}, oc \in PdfBehaviours :
       /\ Exists(fs, inp)
       /\ IF get_output_path_raises(inp, <<".">> \o fmt) THEN PdfCrash
          ELSE PdfOpDone("pdf_to_images",
                         pdf_to_images(inp, PagePattern(get_output_path(inp, <<".">> \o fmt), fmt),
                                       oc, fs),
                         FALSE, <<>>)

(* menu_pdf_operations, one pass. *)
LoopPdf ==
  \/ MenuMerge
  \/ MenuSplit
  \/ MenuCompress
  \/ MenuRotate
  \/ MenuWatermark
  \/ MenuPdfImages

NextLoop ==
  \/ MainMenu
  \/ Back
  \/ Interrupt
  \/ LoopDocuments
  \/ LoopImages
  \/ LoopMedia
  \/ LoopCustom
  \/ LoopPdf

SpecLoop == InitLoop /\ [][NextLoop]_vars

----------------------------------------------------------------------------
(* Properties of the router.                                               *)

(* A format identifier as the specification defines it: "jpeg" is "jpg". *)
FormatId(e) == IF e = jpeg THEN jpg ELSE e

SrcId == FormatId(last.src)
DstId == FormatId(last.dst)

(* The intermediates in the order the specification fixes. *)
SpecIntermediates == <<pdf, png, jpg>>

(* The positions of the intermediates through which s reaches d in two     *)
(* registered hops.                                                        *)
Through(s, d) ==
  {k \in 1..Len(SpecIntermediates) :
     Registered(s, SpecIntermediates[k]) /\ Registered(SpecIntermediates[k], d)}

IsTempName(p) == Contains(p, <<".", "t", "m", "p", "_">>)

(* A call on an input file that exists, as the file-system contract asks. *)
CalledOnExistingInput == last.called /\ Exists(last.before, last.inp)

(* C1: when the pair of format identifiers of a call has a registered      *)
(* handler, convert_file invokes that handler, once, with (inp, out),      *)
(* returns its outcome, and neither records nor writes a temporary file.   *)
DirectInvokesRegisteredHandler ==
  (last.called /\ Registered(SrcId, DstId)) =>
    /\ Len(last.calls) = 1
    /\ last.calls[1].handler = CONVERTERS[<<SrcId, DstId>>]
    /\ last.calls[1].inp = last.inp
    /\ last.calls[1].out = last.out
    /\ last.result = last.calls[1].ok
    /\ last.temp_files = <<>>
    /\ \A p \in last.writes \cup last.removes : ~IsTempName(p)
    /\ artifacts = {}

(* A .docx -> .pdf call that converted: the output exists. *)
DirectCallReturned ==
  /\ last.called /\ last.src = docx /\ last.dst = pdf
  /\ last.result /\ Exists(fs, last.out)

(* C2 as stated: in a chained call whose first hop succeeds (it returned   *)
(* and wrote its result), the hops before the last leave exactly one file  *)
(* written, and no such file exists when the call has returned, whether    *)
(* the second hop succeeded or failed.                                     *)
ChainLeavesNoIntermediate ==
  (CalledOnExistingInput /\ last.route = "chain"
     /\ last.calls[1].ok /\ last.calls[1].writes # {}) =>
    /\ Len(last.temp_files) = 1
    /\ Cardinality(IntermediateWrites(last)) = 1
    /\ IntermediateWrites(last) \cap DOMAIN fs = {}

(* C3 as stated: after any sequence of calls no path written as an         *)
(* intermediate of a chain is on the disk.                                 *)
NoIntermediateRemains == artifacts \cap DOMAIN fs = {}

(* C4: when the pair has neither a registered handler nor a two-hop chain, *)
(* convert_file returns failure with the unsupported-conversion error      *)
(* naming the source and destination extensions as given (lower-cased),    *)
(* invokes no handler and leaves the disk as it was.                       *)
UnsupportedFailsCleanly ==
  (last.called /\ ~Registered(SrcId, DstId) /\ Through(SrcId, DstId) = {}) =>
    /\ ~last.result
    /\ last.error = [kind |-> "unsupported", src |-> last.src, dst |-> last.dst]
    /\ last.src = Lower(IF PathSuffix(last.inp) = <<>> THEN <<>> ELSE Tail(PathSuffix(last.inp)))
    /\ last.dst = Lower(IF PathSuffix(last.out) = <<>> THEN <<>> ELSE Tail(PathSuffix(last.out)))
    /\ last.calls = <<>>
    /\ last.writes = {}
    /\ last.removes = {}
    /\ fs = last.before

(* A .jpeg given as source of an unsupported pair, named as given. *)
UnsupportedCallReturned ==
  /\ last.called /\ last.route = "unsupported"
  /\ last.src = jpeg /\ last.dst = heic
  /\ last.error.src = jpeg

(* The calls that differ from the last one only in the case of the two     *)
(* extensions or in jpeg for jpg.                                          *)
SpellingVariants ==
  {io \in CliInputs \X CliOutputs :
     /\ PathStem(io[1]) = PathStem(last.inp)
     /\ PathStem(io[2]) = PathStem(last.out)
     /\ FormatId(ExtOf(io[1])) = SrcId
     /\ FormatId(ExtOf(io[2])) = DstId}

HandlersOf(calls) == [k \in 1..Len(calls) |-> calls[k].handler]

(* The same routing and the same effect as the last call's. *)
SameAsLast(r) ==
  /\ r.route = last.route
  /\ r.chain = last.chain
  /\ HandlersOf(r.calls) = HandlersOf(last.calls)
  /\ r.result = last.result
  /\ Cardinality(r.writes) = Cardinality(last.writes)
  /\ (r.out \in r.writes) = (last.out \in last.writes)

(* C5 as stated: a call that differs only in extension case or in jpeg for *)
(* jpg, on the same disk with the tools behaving the same, is routed the   *)
(* same way and has the same effect: as many files written, and the output *)
(* path written in the one exactly if it is in the other.                  *)
RoutingIgnoresSpelling ==
  (CalledOnExistingInput /\ \A k \in 1..Len(last.calls) : last.calls[k].writes # {}) =>
    \A io \in SpellingVariants :
      SameAsLast(convert_file(io[1], io[2], last.ocs, platform, last.before))

(* C6: with no registered handler for the pair, the chain is the one       *)
(* through the first of pdf, png, jpg that is registered on both sides;    *)
(* with no such intermediate there is no chain; a chain has two keys and   *)
(* only its keys are invoked, in order.                                    *)
FirstIntermediateWins ==
  (last.called /\ ~Registered(SrcId, DstId)) =>
    /\ Through(SrcId, DstId) = {} =>
         (last.chain = <<>> /\ last.route = "unsupported" /\ last.calls = <<>>)
    /\ Through(SrcId, DstId) # {} =>
         LET k == CHOOSE j \in Through(SrcId, DstId) : \A i \in Through(SrcId, DstId) : j <= i
             mid == SpecIntermediates[k]
         IN /\ last.route = "chain"
            /\ last.chain = << <<SrcId, mid>>, <<mid, DstId>> >>
    /\ Len(last.chain) \in {0, 2}
    /\ Len(last.calls) <= Len(last.chain)
    /\ \A k \in 1..Len(last.calls) : last.calls[k].key = last.chain[k]

(* bmp -> jpg, reachable through pdf and through png, went through pdf. *)
ChainThroughPdfChosen ==
  /\ last.called /\ last.src = bmp /\ last.dst = jpg
  /\ Cardinality(Through(bmp, jpg)) = 2
  /\ last.chain = << <<bmp, pdf>>, <<pdf, jpg>> >>
  /\ Len(last.calls) = 2

(* C7 as stated: in a chained call that returns success, each hop having   *)
(* written its result, the first handler wrote the temporary path named    *)
(* from the input path and step 0, the second read that path and wrote the *)
(* output path, and the result exists at the output path.                  *)
ChainWritesOutputPath ==
  (CalledOnExistingInput /\ last.route = "chain" /\ last.result
     /\ \A k \in 1..Len(last.calls) : last.calls[k].writes # {}) =>
    LET temp == WithSuffix(last.inp, <<".", "t", "m", "p", "_", "0", ".">> \o last.chain[1][2])
    IN /\ last.calls[1].out = temp
       /\ temp \in last.calls[1].writes
       /\ last.calls[2].inp = temp
       /\ last.calls[2].out = last.out
       /\ last.out \in last.calls[2].writes
       /\ Exists(fs, last.out)

(* C8: convert_file returns failure exactly when the pair is unsupported   *)
(* or an invoked handler failed; a failed handler is the last one invoked, *)
(* so the second hop never follows a failed first hop.                     *)
FailureIffUnsupportedOrHandlerFailed ==
  last.called =>
    /\ ~last.result <=>
         \/ (~Registered(SrcId, DstId) /\ Through(SrcId, DstId) = {})
         \/ \E k \in 1..Len(last.calls) : ~last.calls[k].ok
    /\ \A k \in 1..Len(last.calls) : ~last.calls[k].ok => k = Len(last.calls)
    /\ (last.route = "chain" /\ ~last.calls[1].ok) => Len(last.calls) = 1

(* The first hop of a chain failed: one invocation, failure returned. *)
FirstHopFailed ==
  /\ last.called /\ last.route = "chain"
  /\ Len(last.calls) = 1 /\ ~last.calls[1].ok /\ ~last.result

EarlierFilesUntouched ==
  CalledOnExistingInput =>
    \A p \in DOMAIN last.before :
      p # last.out => (Exists(fs, p) /\ fs[p] = last.before[p])

----------------------------------------------------------------------------
(* Properties of the command line and of the menus.                        *)

(* C11: a process that ran the conversion of input to output ends with     *)
(* status 0 when convert_file returned True and with status 1 when it      *)
(* returned False, which it does for an unsupported pair and for a handler *)
(* failure.                                                                *)
ExitStatusFollowsResult ==
  (proc.status = "ended" /\ last.called) =>
    /\ proc.code = IF last.result THEN 0 ELSE 1
    /\ last.route = "unsupported" => proc.code = 1
    /\ (last.calls # <<>> /\ ~last.calls[Len(last.calls)].ok) => proc.code = 1

(* A conversion failed in a handler and the process ended with status 1. *)
ExitedWithFailure ==
  /\ proc.status = "ended" /\ proc.code = 1
  /\ last.called /\ last.error.kind = "handler"

(* C17: a chain find_chain returns, for any two format strings, has two    *)
(* keys, both registered, the first ending in the format the second starts *)
(* from; and no convert_file call ends in dispatch's "No handler" error.   *)
ChainsAreTwoRegisteredHops ==
  /\ (query.asked /\ query.chain # <<>>) =>
       /\ Len(query.chain) = 2
       /\ \A k \in 1..2 : query.chain[k] \in DOMAIN CONVERTERS
       /\ query.chain[1][2] = query.chain[2][1]
  /\ last.called =>
       /\ last.error.kind # "no_handler"
       /\ \A k \in 1..Len(last.calls) : last.calls[k].handler # "none"

(* find_chain was given the un-normalised "jpeg" and returned a chain. *)
ChainFoundForJpeg ==
  query.asked /\ jpeg \in {query.src, query.dst} /\ query.chain # <<>>

(* The process was given both paths, and the input file is on the disk. *)
PathsGivenAndInputExists ==
  /\ proc.args.input # None /\ proc.args.output # None
  /\ Exists(fs, proc.args.input)

(* C13 as stated: no process, given both paths and an input that exists,   *)
(* ends by an exception nothing caught.                                    *)
EveryErrorCaught == PathsGivenAndInputExists => proc.how # "uncaught"

(* The operations whose flag was given on the command line. *)
FlagsGiven(a) ==
  {op \in {"doctor", "merge_pdfs", "split_pdf", "compress_pdf", "rotate_pdf", "watermark_pdf"} :
     \/ (op = "doctor" /\ a.doctor) \/ (op = "merge_pdfs" /\ a.merge)
     \/ (op = "split_pdf" /\ a.split) \/ (op = "compress_pdf" /\ a.compress)
     \/ (op = "rotate_pdf" /\ a.rotate # <<>>)
     \/ (op = "watermark_pdf" /\ a.watermark # None)}

(* C16 as stated: a process given an existing input, an output path and    *)
(* one or more of the operation flags ran one operation, one whose flag was *)
(* given, and the conversion of input to output ran only in a process      *)
(* given none of them.                                                     *)
OneOperationChosenByFlag ==
  (proc.status = "ended" /\ PathsGivenAndInputExists) =>
    /\ FlagsGiven(proc.args) # {} =>
         (Len(proc.ops) = 1 /\ proc.ops[1] \in FlagsGiven(proc.args))
    /\ "convert_file" \in {proc.ops[k] : k \in 1..Len(proc.ops)} =>
         FlagsGiven(proc.args) = {}

(* C12 as stated: the menu process ends only by the exit choice or by an   *)
(* interrupt, and a pass that reported an error left control in a menu.    *)
MenuLoopSurvivesErrors ==
  /\ proc.status = "ended" => proc.how \in {"exit", "interrupt"}
  /\ proc.reported => (proc.status = "running" /\ proc.at \in Submenus \cup {"main"})

(* C14: the handler table of the running process has the keys and the     *)
(* handlers it had at start, whatever calls were made.                     *)
RegistryNeverMutated == converters = CONVERTERS

(* A failed call, made after a call that left an intermediate file. *)
FailedCallAfterOthers ==
  last.called /\ ~last.result /\ artifacts # {} /\ last.writes = {}

(* The formats the image menu offers. *)
ImageMenuFormats == {png, jpg, bmp, webp, pdf}

(* C15 as stated: a conversion between two distinct formats of the image   *)
(* menu, to the output path the menu derives, is routed to a handler or a  *)
(* chain.                                                                  *)
ImageMenuPairsResolve ==
  (/\ CalledOnExistingInput
   /\ last.src \in ImageMenuFormats /\ last.dst \in ImageMenuFormats
   /\ last.src # last.dst
   /\ last.out = get_output_path(last.inp, last.dst)) =>
    last.route \in {"direct", "chain"}

Consent == {<<"y">>, <<"y", "e", "s">>}

Turns == (MaxDeg \div 360) + 1
Mod360(deg) == CHOOSE r \in 0..359 : \E q \in (-Turns)..Turns : deg = 360 * q + r
FloorTo90(m) == CHOOSE k \in {0, 90, 180, 270} : k <= m /\ m < k + 90

(* C19: the angle rotate_pdf applies is one of 0, 90, 180, 270, namely the *)
(* largest multiple of 90 not exceeding deg modulo 360; each of 90, 180,   *)
(* 270 and -90 is applied as itself modulo 360; and the branch that adds   *)
(* 360 to a negative angle is not taken.                                   *)
RotationIsQuarterTurnBelow ==
  (proc.ops = <<"rotate_pdf">> /\ proc.rotation # -1) =>
    /\ proc.rotation \in {0, 90, 180, 270}
    /\ proc.rotation = FloorTo90(Mod360(proc.args.rotate[1]))
    /\ proc.args.rotate[1] \in {90, 180, 270, -90} =>
         proc.rotation = Mod360(proc.args.rotate[1])
    /\ ~proc.corrected

(* --rotate -90 was applied as 270. *)
RotatedByMinusNinety ==
  proc.ops = <<"rotate_pdf">> /\ proc.args.rotate = <<-90>> /\ proc.rotation = 270

====
